---- MODULE Spec2Model ----
(***************************************************************************)
(* Model of tools/generate_release_notes_index.py: the release-note index  *)
(* builder (index_func), the minor-release title resolver                  *)
(* (minor_release_get_title) and the template loop of render_templates.    *)
(* Strings are sequences of one-character strings, so that the regular     *)
(* expressions, str.split, str.startswith and the pathlib name rules are    *)
(* computed character by character, as the Python code computes them.      *)
(***************************************************************************)
EXTENDS Integers, Sequences, FiniteSets, TLC

VARIABLES
    arg,          \* index_func: the path argument (a string)
    dirExists,    \* whether the release-note directory <root>/a exists
    entries,      \* names in <root>/a, in iterdir() order
    given,        \* the numbers the single entry's name was formatted from
    indexResult,  \* outcome of the index_func call
    tPath,        \* minor_release_get_title: the path argument
    tVersion,     \* minor_release_get_title: the version argument
    tFile,        \* state of "<version>.0.md" under <root>/notes
    titleResult,  \* outcome of the minor_release_get_title call
    templates,    \* names in the templates directory, in iterdir() order
    failing,      \* templates whose get_template()/render() raises (a syntax
                  \* error, or an index/title global that raises when called)
    pos,          \* render_templates: next entry of the loop (1-based)
    pc,           \* render_templates: "running", "done" or "error"
    writes        \* files written by the pass, in order: [out, tpl]

vars == <<arg, dirExists, entries, given, indexResult, tPath, tVersion, tFile,
          titleResult, templates, failing, pos, pc, writes>>

indexVars == <<arg, dirExists, entries, given, indexResult>>
titleVars == <<tPath, tVersion, tFile, titleResult>>
renderVars == <<templates, failing, pos, pc, writes>>

-----------------------------------------------------------------------------
(* Bounds of the model.                                                    *)

MaxNum == 11

MaxEntries == 3

MaxPieces == 3

MaxTemplates == 3

-----------------------------------------------------------------------------
(* Character strings.                                                      *)

DigitSeq == <<"0", "1", "2", "3", "4", "5", "6", "7", "8", "9">>

IsDigit(c) == \E d \in 1..10 : DigitSeq[d] = c

DigitValue(c) == (CHOOSE d \in 1..10 : DigitSeq[d] = c) - 1

\* str(n) for a non-negative integer
RECURSIVE Fmt(_)
Fmt(n) == IF n < 10 THEN <<DigitSeq[n + 1]>>
          ELSE Fmt(n \div 10) \o <<DigitSeq[(n % 10) + 1]>>

\* int(s) for a string of decimal digits
RECURSIVE ParseInt(_)
ParseInt(s) == IF s = <<>> THEN 0
               ELSE 10 * ParseInt(SubSeq(s, 1, Len(s) - 1)) + DigitValue(s[Len(s)])

\* s.startswith(p)
StartsWith(s, p) == Len(p) <= Len(s) /\ SubSeq(s, 1, Len(p)) = p

\* s.find(p, from): least index >= from where p occurs in s, 0 when there is none
FindFrom(s, p, from) ==
    LET hits == {i \in from..(Len(s) - Len(p) + 1) : SubSeq(s, i, i + Len(p) - 1) = p}
    IN IF hits = {} THEN 0 ELSE CHOOSE i \in hits : \A j \in hits : i <= j

\* s.split(sep): the list of the pieces between the occurrences of sep
RECURSIVE Split(_, _)
Split(s, sep) ==
    LET i == FindFrom(s, sep, 1)
    IN IF i = 0 THEN <<s>>
       ELSE <<SubSeq(s, 1, i - 1)>> \o Split(SubSeq(s, i + Len(sep), Len(s)), sep)

\* s.replace(c, "") for a single character c
RECURSIVE Remove(_, _)
Remove(s, c) == IF s = <<>> THEN <<>>
                ELSE (IF Head(s) = c THEN <<>> ELSE <<Head(s)>>) \o Remove(Tail(s), c)

\* sep.join(parts)
RECURSIVE Join(_, _)
Join(parts, sep) == IF parts = <<>> THEN <<>>
                    ELSE IF Len(parts) = 1 THEN parts[1]
                    ELSE parts[1] \o sep \o Join(Tail(parts), sep)

\* the sequences of distinct elements of S of length at most n
DistinctSeqs(S, n) ==
    UNION {{f \in [1..k -> S] : \A i, j \in 1..k : i # j => f[i] # f[j]} : k \in 0..n}

SLASH == <<"/">>
DOT == <<".">>
DOTDOT == <<".", ".">>
DOT_MD == <<".", "m", "d">>

-----------------------------------------------------------------------------
(* The version regular expressions (re.match anchors at the start only).   *)

\* length of the run of digits of s that starts at index i
RECURSIVE DigitRun(_, _)
DigitRun(s, i) == IF i >= 1 /\ i <= Len(s) /\ IsDigit(s[i]) THEN 1 + DigitRun(s, i + 1)
                  ELSE 0

\* The common shape \d+\.\d+\.\d+ matched at the start of the stem: the lengths
\* a, b, c of the three greedy digit runs (c = 0: no match).
VersionShape(s) ==
    LET a == DigitRun(s, 1)
        b == IF a > 0 /\ a + 1 <= Len(s) /\ s[a + 1] = "." THEN DigitRun(s, a + 2) ELSE 0
        c == IF b > 0 /\ a + b + 2 <= Len(s) /\ s[a + b + 2] = "."
             THEN DigitRun(s, a + b + 3) ELSE 0
    IN [a |-> a, b |-> b, c |-> c]

NoMatch == [matched |-> FALSE, group |-> <<>>]

Group(g) == [matched |-> TRUE, group |-> g]

MAJOR_VERSION(s) ==
    LET v == VersionShape(s)
    IN IF v.c = 0 THEN NoMatch ELSE Group(SubSeq(s, 1, v.a))

MINOR_VERSION(s) ==
    LET v == VersionShape(s)
    IN IF v.c = 0 THEN NoMatch ELSE Group(SubSeq(s, v.a + 2, v.a + v.b + 1))

PATCH_VERSION_FirstDigit(s) ==
    LET v == VersionShape(s)
    IN IF v.c = 0 THEN NoMatch ELSE Group(SubSeq(s, v.a + v.b + 3, v.a + v.b + 3))

PATCH_VERSION(s) ==
    LET v == VersionShape(s)
    IN IF v.c = 0 THEN NoMatch ELSE Group(SubSeq(s, v.a + v.b + 3, v.a + v.b + v.c + 2))

MAJOR_MINOR_VERSION_MajorOnly(s) ==
    LET v == VersionShape(s)
    IN IF v.c = 0 THEN NoMatch ELSE Group(SubSeq(s, 1, v.a))

MAJOR_MINOR_VERSION(s) ==
    LET v == VersionShape(s)
    IN IF v.c = 0 THEN NoMatch ELSE Group(SubSeq(s, 1, v.a + v.b + 1))

\* re.match(".*rc\d+", stem)
MatchesRc(s) ==
    \E i \in 1..(Len(s) - 2) : s[i] = "r" /\ s[i + 1] = "c" /\ IsDigit(s[i + 2])

\* re.match(".*\.post\d+", stem)
MatchesPost(s) ==
    \E i \in 1..(Len(s) - 5) :
        /\ SubSeq(s, i, i + 4) = <<".", "p", "o", "s", "t">>
        /\ IsDigit(s[i + 5])

map_post_version_sort_to_number(stem) ==
    IF MatchesRc(stem) THEN 0
    ELSE IF MatchesPost(stem) THEN 2
    ELSE 1

-----------------------------------------------------------------------------
(* Paths (pathlib) and the file system seen by index_func.                 *)

\* The components of a path string: pathlib drops empty and "." components
\* and keeps "..".
PathParts(str) == SelectSeq(Split(str, SLASH), LAMBDA c : c # <<>> /\ c # DOT)

\* str(path) of an absolute path
PathStr(parts) == SLASH \o Join(parts, SLASH)

\* The output root, an absolute resolved path: /d
output_path == <<<<"d">>>>

\* output_path / path: an absolute argument replaces the left operand, a
\* relative one is appended to it component by component, ".." included.
PathJoin(base, str) ==
    IF StartsWith(str, SLASH) THEN PathParts(str) ELSE base \o PathParts(str)

NOTES_DIR == <<<<"d">>, <<"a">>>>
OUTSIDE_DIR == <<<<"e">>>>
SIBLING_DIR == <<<<"d", "2">>>>

\* The directories of the file system: /, /d, /e, /d2 and, when it exists, /d/a.
Directories(exists) ==
    {<<>>, output_path, OUTSIDE_DIR, SIBLING_DIR} \cup (IF exists THEN {NOTES_DIR} ELSE {})

\* path.exists(): the kernel walks the components, every one of which must be
\* a directory of the file system.
RECURSIVE Walk(_, _, _)
Walk(cur, rest, dirs) ==
    IF rest = <<>> THEN [found |-> TRUE, loc |-> cur]
    ELSE IF Head(rest) = DOTDOT
         THEN Walk(IF cur = <<>> THEN <<>> ELSE SubSeq(cur, 1, Len(cur) - 1), Tail(rest), dirs)
         ELSE IF Append(cur, Head(rest)) \in dirs
              THEN Walk(Append(cur, Head(rest)), Tail(rest), dirs)
              ELSE [found |-> FALSE, loc |-> <<>>]

\* path.iterdir(): the names in a directory
Listing(loc, exists, names) ==
    IF loc = NOTES_DIR THEN names
    ELSE IF loc = OUTSIDE_DIR THEN <<<<"9", ".", "9", ".", "9">> \o DOT_MD>>
    ELSE IF loc = SIBLING_DIR THEN <<<<"8", ".", "8", ".", "8">> \o DOT_MD>>
    ELSE IF loc = output_path THEN (IF exists THEN <<<<"a">>>> ELSE <<>>)
    ELSE <<<<"d">>, <<"d", "2">>, <<"e">>>>

\* PurePath.stem: the name up to its last dot, unless that dot is the first
\* or the last character of the name.
Stem(name) ==
    LET dots == {i \in 1..Len(name) : name[i] = "."}
        j == IF dots = {} THEN 0 ELSE CHOOSE i \in dots : \A k \in dots : k <= i
    IN IF 1 < j /\ j < Len(name) THEN SubSeq(name, 1, j - 1) ELSE name

\* i.relative_to(output_path): component-wise, no ".." resolution
RelativeTo(parts, base) ==
    IF Len(base) <= Len(parts) /\ SubSeq(parts, 1, Len(base)) = base
    THEN [ok |-> TRUE, str |-> Join(SubSeq(parts, Len(base) + 1, Len(parts)), SLASH)]
    ELSE [ok |-> FALSE, str |-> <<>>]

-----------------------------------------------------------------------------
(* index_func                                                              *)

VersionRecord(stem, relpath) ==
    [major_version_number |-> ParseInt(MAJOR_VERSION(stem).group),
     minor_version_number |-> ParseInt(MINOR_VERSION(stem).group),
     patch_version_number |-> ParseInt(PATCH_VERSION(stem).group),
     post_version_sort |-> map_post_version_sort_to_number(stem),
     stem |-> stem,
     path |-> relpath]

\* mapped_items[key].append(rec) on a defaultdict(list)
AppendUnder(mapped, key, rec) ==
    [k \in DOMAIN mapped \cup {key} |->
        IF k = key THEN (IF k \in DOMAIN mapped THEN Append(mapped[k], rec) ELSE <<rec>>)
        ELSE mapped[k]]

EmptyMapping == [k \in {} |-> <<>>]

Failure(status, log) == [status |-> status, mapping |-> EmptyMapping, fsLog |-> log]

\* A variant of the loop that skips the names the pattern does not match.
RECURSIVE index_loop_skipping(_, _, _, _)
index_loop_skipping(path, items, mapped, log) ==
    IF items = <<>> THEN [status |-> "ok", mapping |-> mapped, fsLog |-> log]
    ELSE LET i == Head(items)
             stem == Stem(i)
             key == MAJOR_MINOR_VERSION(stem)
             rel == RelativeTo(Append(path, i), output_path)
         IN IF ~key.matched THEN index_loop_skipping(path, Tail(items), mapped, log)
            ELSE IF ~rel.ok THEN Failure("not_relative", log)
            ELSE index_loop_skipping(path, Tail(items),
                     AppendUnder(mapped, key.group, VersionRecord(stem, rel.str)), log)

\* for i in items: mapped_items[<major.minor>].append({...}).  The subscript is
\* evaluated first: a name the pattern does not match raises AttributeError
\* (None has no group) before anything is inserted.
RECURSIVE index_loop(_, _, _, _)
index_loop(path, items, mapped, log) ==
    IF items = <<>> THEN [status |-> "ok", mapping |-> mapped, fsLog |-> log]
    ELSE LET i == Head(items)
             stem == Stem(i)
             key == MAJOR_MINOR_VERSION(stem)
             rel == RelativeTo(Append(path, i), output_path)
         IN IF ~key.matched THEN Failure("no_match", log)
            ELSE IF ~rel.ok THEN Failure("not_relative", log)
            ELSE index_loop(path, Tail(items),
                     AppendUnder(mapped, key.group, VersionRecord(stem, rel.str)), log)

index_func(str, exists, names) ==
    LET path == PathJoin(output_path, str)
        at == Walk(<<>>, path, Directories(exists))
    IN IF ~StartsWith(PathStr(path), PathStr(output_path)) THEN Failure("escape", <<>>)
       ELSE IF ~at.found THEN Failure("not_found", <<"exists">>)
       ELSE index_loop(path, Listing(at.loc, exists, names), EmptyMapping,
                       <<"exists", "iterdir">>)

-----------------------------------------------------------------------------
(* Inputs of index_func.                                                   *)

Forms == {"final", "post", "rc"}

\* "X.Y.Z", "X.Y.Z.postN" or "X.Y.ZrcN"
FmtStem(x, y, z, form, n) ==
    Fmt(x) \o DOT \o Fmt(y) \o DOT \o Fmt(z)
        \o (IF form = "post" THEN <<".", "p", "o", "s", "t">> \o Fmt(n)
            ELSE IF form = "rc" THEN <<"r", "c">> \o Fmt(n)
            ELSE <<>>)

Given(x, y, z, form, n) == [x |-> x, y |-> y, z |-> z, form |-> form, n |-> n]

NoGiven == Given(0, 0, 0, "none", 0)

WellFormedNames ==
    {FmtStem(1, 2, 0, "final", 0) \o DOT_MD,
     FmtStem(1, 2, 1, "final", 0) \o DOT_MD,
     FmtStem(1, 2, 1, "rc", 1) \o DOT_MD,
     FmtStem(1, 2, 1, "post", 1) \o DOT_MD,
     FmtStem(1, 3, 0, "final", 0) \o DOT_MD,
     FmtStem(11, 2, 0, "final", 0) \o DOT_MD}

\* a subdirectory, a file that is no release note, a two-number version
MalformedNames ==
    {<<"i", "m", "g">>, <<"R">> \o DOT_MD, <<"1", ".", "2">> \o DOT_MD}

NamePool == WellFormedNames \cup MalformedNames

ArgPool ==
    {<<"a">>, <<"b">>, <<>>, <<"/", "d", "/", "a">>,
     <<".", ".">>, <<".", ".", "/", "e">>, <<"a", "/", ".", ".", "/", ".", ".", "/", "e">>,
     <<"/", "e">>, <<"/", "d", "2">>, <<".", ".", "/", "d", "2">>}

Pending == [status |-> "pending", mapping |-> EmptyMapping, fsLog |-> <<>>]

IndexIdle ==
    /\ arg = <<>>
    /\ dirExists = FALSE
    /\ entries = <<>>
    /\ given = NoGiven
    /\ indexResult = Pending

InitIndex ==
    /\ indexResult = Pending
    /\ \/ /\ \E x, y, z \in 0..MaxNum, form \in Forms :
                \E n \in (IF form = "final" THEN {0} ELSE 0..MaxNum) :
                    /\ given = Given(x, y, z, form, n)
                    /\ entries = <<FmtStem(x, y, z, form, n) \o DOT_MD>>
          /\ arg = <<"a">>
          /\ dirExists = TRUE
       \/ /\ given = NoGiven
          /\ arg \in ArgPool
          /\ dirExists \in BOOLEAN
          /\ entries \in (IF dirExists THEN DistinctSeqs(NamePool, MaxEntries) ELSE {<<>>})

\* One call of the index global.
IndexCall ==
    /\ indexResult.status = "pending"
    /\ indexResult' = index_func(arg, dirExists, entries)
    /\ UNCHANGED <<arg, dirExists, entries, given>>
    /\ UNCHANGED <<titleVars, renderVars>>

-----------------------------------------------------------------------------
(* minor_release_get_title                                                 *)

V_1_19 == <<"1", ".", "1", "9">>
V_1_13 == <<"1", ".", "1", "3">>
V_1_27 == <<"1", ".", "2", "7">>

TITLE_1_19 ==
    <<"1", ".", "1", "9", " ", "F", "a", "n", "t", "a", "s", "t", "i", "c", " ", "D", "o", "n", "k", "e", "y", "s">>

TITLE_1_13 ==
    <<"1", ".", "1", "3", " ", "D", "o", "n", "k", "e", "r", "i", "n", "e">>

OnlyFirstOverride == [v \in {V_1_19} |-> TITLE_1_19]

HARD_CODED_RELEASE_NOTE_TITLE ==
    [v \in {V_1_19, V_1_13} |-> IF v = V_1_19 THEN TITLE_1_19 ELSE TITLE_1_13]

MARKER == <<".", "0", " ">>

\* The release file as the resolver reads it: a sequence of tokens, each the
\* delimiter "---", a "title: <value>" line, another "key: value" line, or text
\* that is no key-value line.
Tok(kind, isStr, chars) == [kind |-> kind, isStr |-> isStr, chars |-> chars]

DELIM == Tok("delim", TRUE, <<>>)
FIELD == Tok("field", TRUE, <<>>)
TEXT == Tok("text", TRUE, <<>>)
TitleLine(chars) == Tok("title", TRUE, chars)
\* title: 1.27   (YAML reads a number)
NUMBER_TITLE == Tok("title", FALSE, <<>>)

\* f.read().split("---")
RECURSIVE SplitTokens(_)
SplitTokens(content) ==
    LET hits == {i \in 1..Len(content) : content[i].kind = "delim"}
        i == IF hits = {} THEN 0 ELSE CHOOSE h \in hits : \A k \in hits : h <= k
    IN IF i = 0 THEN <<content>>
       ELSE <<SubSeq(content, 1, i - 1)>> \o SplitTokens(SubSeq(content, i + 1, Len(content)))

\* yaml.safe_load of one block: None for an empty block, a mapping when every
\* line is a key-value line, a plain string otherwise.
safe_load(block) ==
    IF block = <<>> THEN [kind |-> "none", title |-> <<>>]
    ELSE IF \E i \in 1..Len(block) : block[i].kind = "text"
         THEN [kind |-> "str", title |-> <<>>]
         ELSE [kind |-> "dict",
               title |-> SelectSeq(block, LAMBDA t : t.kind = "title")]

TitleOk(str, log) == [status |-> "ok", title |-> str, fsLog |-> log]

TitleError(status, log) == [status |-> status, title |-> <<>>, fsLog |-> log]

\* A variant that falls back to the bare version when the marker is missing.
TitleFromField_fallback(version, chars, log) ==
    LET parts == Split(Remove(Remove(chars, "\""), "'"), MARKER)
    IN IF Len(parts) < 2 THEN TitleOk(version, log)
       ELSE TitleOk(version \o <<" ">> \o parts[2], log)

\* data["title"].replace("\"", "").replace("'", "").split(".0 ")[1], then
\* version + " " + that piece
TitleFromField(version, chars, log) ==
    LET parts == Split(Remove(Remove(chars, "\""), "'"), MARKER)
    IN IF Len(parts) < 2 THEN TitleError("IndexError", log)
       ELSE TitleOk(version \o <<" ">> \o parts[2], log)

\* os.path.exists(os.path.join(output_path / path, version + ".0.md")): the
\* release file lives in /d/a
ReleaseFileExists(path, file) ==
    LET at == Walk(<<>>, PathJoin(output_path, path), Directories(TRUE))
    IN at.found /\ at.loc = NOTES_DIR /\ file.exists

minor_release_get_title(path, version, file) ==
    IF version \in DOMAIN HARD_CODED_RELEASE_NOTE_TITLE
    THEN TitleOk(HARD_CODED_RELEASE_NOTE_TITLE[version], <<>>)
    ELSE IF ~ReleaseFileExists(path, file) THEN TitleOk(version, <<"exists">>)
    ELSE LET log == <<"exists", "open">>
             blocks == SplitTokens(file.content)
             data == IF Len(blocks) < 2 THEN safe_load(<<>>) ELSE safe_load(blocks[2])
         IN IF Len(blocks) < 2 THEN TitleError("IndexError", log)
            ELSE IF data.kind # "dict" THEN TitleError("TypeError", log)
            ELSE IF data.title = <<>> THEN TitleError("KeyError", log)
            ELSE LET field == data.title[Len(data.title)]
                 IN IF ~field.isStr THEN TitleError("AttributeError", log)
                    ELSE TitleFromField(version, field.chars, log)

-----------------------------------------------------------------------------
(* Inputs of minor_release_get_title.                                      *)

Versions == {V_1_19, V_1_13, V_1_27}

PiecePool == {MARKER, <<"A">>, <<"\"">>, <<"'">>, <<".", "0">>, <<" ">>}

RECURSIVE Concat(_)
Concat(pieces) == IF pieces = <<>> THEN <<>> ELSE Head(pieces) \o Concat(Tail(pieces))

\* title strings: up to MaxPieces pieces, after the version or after nothing
TitleStrings(version) ==
    {prefix \o Concat(ps) :
        prefix \in {<<>>, version},
        ps \in UNION {[1..k -> PiecePool] : k \in 0..MaxPieces}}

TitleTokens(version) == {TitleLine(t) : t \in TitleStrings(version)} \cup {NUMBER_TITLE}

Contents(version) ==
    {<<TEXT>>, <<DELIM, FIELD, DELIM, TEXT>>, <<DELIM, DELIM, TEXT>>, <<DELIM, TEXT, DELIM>>}
    \cup {<<DELIM, t, DELIM, TEXT>> : t \in TitleTokens(version)}
    \cup {<<DELIM, t>> : t \in TitleTokens(version)}
    \cup {<<TEXT, DELIM, FIELD, t, DELIM, TEXT>> : t \in TitleTokens(version)}

NoFile == [exists |-> FALSE, content |-> <<>>]

TitlePending == [status |-> "pending", title |-> <<>>, fsLog |-> <<>>]

TitleIdle ==
    /\ tPath = <<>>
    /\ tVersion = <<>>
    /\ tFile = NoFile
    /\ titleResult = TitlePending

InitTitle ==
    /\ tPath \in {<<"a">>, <<"b">>, <<".", ".", "/", "e">>}
    /\ tVersion \in Versions
    /\ tFile \in {NoFile} \cup {[exists |-> TRUE, content |-> c] : c \in Contents(tVersion)}
    /\ titleResult = TitlePending

\* One call of the minor_release_get_title global.
TitleCall ==
    /\ titleResult.status = "pending"
    /\ titleResult' = minor_release_get_title(tPath, tVersion, tFile)
    /\ UNCHANGED <<tPath, tVersion, tFile>>
    /\ UNCHANGED <<indexVars, renderVars>>

-----------------------------------------------------------------------------
(* render_templates: the loop over the templates directory.                *)

\* PurePath.suffixes: none for a name that ends with a dot; otherwise the
\* leading dots are stripped and every piece after the first is a suffix.
RECURSIVE LStripDots(_)
LStripDots(name) ==
    IF name # <<>> /\ Head(name) = "." THEN LStripDots(Tail(name)) ELSE name

Suffixes(name) ==
    IF name # <<>> /\ name[Len(name)] = "." THEN <<>>
    ELSE LET pieces == Split(LStripDots(name), DOT)
         IN [i \in 1..(Len(pieces) - 1) |-> DOT \o pieces[i + 1]]

\* tpl.suffixes[0] == ".md" and not tpl.name.startswith("."): "raise" when the
\* name has no suffix (IndexError), else whether the template is rendered.
IsTemplate(name) ==
    IF Suffixes(name) = <<>> THEN "raise"
    ELSE IF Suffixes(name)[1] = DOT_MD /\ ~StartsWith(name, DOT) THEN "yes"
    ELSE "no"

OutName_short(name) == SubSeq(name, 1, (FindFrom(name, DOT_MD, 1) - 1) + 2)

\* tpl.name[:tpl.name.find(".md")+3]
OutName(name) == SubSeq(name, 1, (FindFrom(name, DOT_MD, 1) - 1) + 3)

\* A variant that opens the output file before it renders.
RenderOne_writeFirst(tpl, fails, ws) ==
    IF IsTemplate(tpl) = "raise" THEN [pc |-> "error", writes |-> ws]
    ELSE IF IsTemplate(tpl) = "no" THEN [pc |-> "running", writes |-> ws]
    ELSE [pc |-> IF tpl \in fails THEN "error" ELSE "running",
          writes |-> Append(ws, [out |-> OutName(tpl), tpl |-> tpl])]

\* One iteration of the loop: the test, then get_template and render (which
\* raise for the templates of fails), then write_text.
RenderOne(tpl, fails, ws) ==
    IF IsTemplate(tpl) = "raise" THEN [pc |-> "error", writes |-> ws]
    ELSE IF IsTemplate(tpl) = "no" THEN [pc |-> "running", writes |-> ws]
    ELSE IF tpl \in fails THEN [pc |-> "error", writes |-> ws]
    ELSE [pc |-> "running", writes |-> Append(ws, [out |-> OutName(tpl), tpl |-> tpl])]

TemplatePool ==
    {<<"i">> \o DOT_MD \o <<".", "j">>,
     <<"i">> \o DOT_MD \o <<".", "k">>,
     <<"i">> \o DOT_MD,
     <<"b">> \o DOT_MD \o <<".", "j">>,
     <<".", "h">> \o DOT_MD,
     <<"a", ".", "b">> \o DOT_MD,
     <<"R">>,
     <<".", "g">>}

Range(seq) == {seq[i] : i \in 1..Len(seq)}

RenderIdle ==
    /\ templates = <<>>
    /\ failing = {}
    /\ pos = 1
    /\ pc = "idle"
    /\ writes = <<>>

InitRender ==
    /\ templates \in DistinctSeqs(TemplatePool, MaxTemplates)
    /\ failing \in SUBSET Range(templates)
    /\ pos = 1
    /\ pc = "running"
    /\ writes = <<>>

\* for tpl in pathlib.Path(templates_dir).iterdir(): one entry
RenderStep ==
    /\ pc = "running"
    /\ pos <= Len(templates)
    /\ LET r == RenderOne(templates[pos], failing, writes)
       IN /\ pc' = r.pc
          /\ writes' = r.writes
          /\ pos' = IF r.pc = "running" THEN pos + 1 ELSE pos
    /\ UNCHANGED <<templates, failing>>
    /\ UNCHANGED <<indexVars, titleVars>>

\* the loop is exhausted: render_templates returns
RenderReturn ==
    /\ pc = "running"
    /\ pos > Len(templates)
    /\ pc' = "done"
    /\ UNCHANGED <<templates, failing, pos, writes>>
    /\ UNCHANGED <<indexVars, titleVars>>

-----------------------------------------------------------------------------
(* Specifications.                                                         *)

\* calls of the index global
Init == InitIndex /\ TitleIdle /\ RenderIdle

Next == IndexCall

Spec == Init /\ [][Next]_vars

\* calls of the title global
InitT == IndexIdle /\ InitTitle /\ RenderIdle

NextT == TitleCall

SpecTitle == InitT /\ [][NextT]_vars

\* render passes
InitR == IndexIdle /\ TitleIdle /\ InitRender

NextR == RenderStep \/ RenderReturn

SpecRender == InitR /\ [][NextR]_vars

-----------------------------------------------------------------------------
(* Properties of index_func (checked under Spec).                          *)

IndexReturned == indexResult.status # "pending"

IsPrefix(p, s) == Len(p) <= Len(s) /\ SubSeq(s, 1, Len(p)) = p

\* The directory a path names once ".." is resolved ("/.." is "/").
RECURSIVE Normalize(_, _)
Normalize(cur, rest) ==
    IF rest = <<>> THEN cur
    ELSE IF Head(rest) = DOTDOT
         THEN Normalize(IF cur = <<>> THEN <<>> ELSE SubSeq(cur, 1, Len(cur) - 1), Tail(rest))
         ELSE Normalize(Append(cur, Head(rest)), Tail(rest))

\* the argument names a location outside the output root
Escapes(str) == ~IsPrefix(output_path, Normalize(<<>>, PathJoin(output_path, str)))

\* the names index_func enumerates for the argument (none when the path is missing)
Listed ==
    LET at == Walk(<<>>, PathJoin(output_path, arg), Directories(dirExists))
    IN IF at.found THEN Listing(at.loc, dirExists, entries) ELSE <<>>

\* the stem has no major.minor.patch numeric substring at all
LacksVersion(stem) ==
    \A i \in 1..Len(stem) : VersionShape(SubSeq(stem, i, Len(stem))).c = 0

\* the stem starts with major.minor.patch
WellFormed(stem) == VersionShape(stem).c > 0

\* the "major.minor" prefix of a stem: its text before the second dot
MajorMinorPrefix(stem) == Join(SubSeq(Split(stem, DOT), 1, 2), DOT)

\* the records of a mapping, each named by its key and its position under it
RecordsOf(m) == UNION {{<<k, j>> : j \in 1..Len(m[k])} : k \in DOMAIN m}

\* C1: an index path that resolves outside the output root is rejected with the
\* boundary-violation error before any file-system access (exists, iterdir).
C1_EscapeRejectedBeforeAccess ==
    (IndexReturned /\ Escapes(arg)) =>
        (indexResult.status = "escape" /\ indexResult.fsLog = <<>>)

\* C3: when an enumerated entry's stem lacks a major.minor.patch substring the
\* call fails and returns no mapping, wherever the entry is in the enumeration.
C3_MalformedEntryFailsCall ==
    (IndexReturned /\ \E i \in 1..Len(Listed) : LacksVersion(Stem(Listed[i]))) =>
        (indexResult.status \notin {"ok", "pending"} /\ indexResult.mapping = EmptyMapping)

C3_Witness ==
    /\ indexResult.status = "no_match"
    /\ Listed = entries
    /\ Len(entries) = 3
    /\ WellFormed(Stem(entries[1]))
    /\ WellFormed(Stem(entries[2]))
    /\ LacksVersion(Stem(entries[3]))

\* C4: for a stem "X.Y.Z", "X.Y.Z.postN" or "X.Y.ZrcN" the record has major X,
\* minor Y, patch Z and rank 1, 2 or 0 respectively; every rank is 0, 1 or 2.
C4_RecordNumbersAndRank ==
    /\ (IndexReturned /\ given.form # "none") =>
          /\ indexResult.status = "ok"
          /\ Cardinality(RecordsOf(indexResult.mapping)) = 1
          /\ \A kj \in RecordsOf(indexResult.mapping) :
                LET r == indexResult.mapping[kj[1]][kj[2]]
                IN /\ r.major_version_number = given.x
                   /\ r.minor_version_number = given.y
                   /\ r.patch_version_number = given.z
                   /\ r.post_version_sort =
                        (IF given.form = "final" THEN 1
                         ELSE IF given.form = "post" THEN 2 ELSE 0)
    /\ \A kj \in RecordsOf(indexResult.mapping) :
          indexResult.mapping[kj[1]][kj[2]].post_version_sort \in {0, 1, 2}

C4_Witness ==
    /\ indexResult.status = "ok"
    /\ given.form = "rc"
    /\ given.x >= 10
    /\ given.y >= 10
    /\ given.z >= 10
    /\ given.n >= 10

\* the position in the enumeration of the entry a record was built from
EntryOf(r) == {i \in 1..Len(Listed) : Stem(Listed[i]) = r.stem /\
                 r.path = Join(SubSeq(PathJoin(output_path, arg), 2, Len(PathJoin(output_path, arg)))
                               \o <<Listed[i]>>, SLASH)}

\* C5: when every stem is well-formed the mapping holds every entry exactly once,
\* under the key that is its stem's "major.minor" prefix, no key is empty, and
\* the records of a key are in discovery order.
C5_GroupingByMajorMinor ==
    (IndexReturned /\ indexResult.status \notin {"escape", "not_found", "not_relative"}
        /\ \A i \in 1..Len(Listed) : WellFormed(Stem(Listed[i]))) =>
        LET m == indexResult.mapping
        IN /\ indexResult.status = "ok"
           /\ Cardinality(RecordsOf(m)) = Len(Listed)
           /\ \A i \in 1..Len(Listed) :
                 Cardinality({kj \in RecordsOf(m) : i \in EntryOf(m[kj[1]][kj[2]])}) = 1
           /\ \A kj \in RecordsOf(m) : kj[1] = MajorMinorPrefix(m[kj[1]][kj[2]].stem)
           /\ \A k \in DOMAIN m : m[k] # <<>>
           /\ \A k \in DOMAIN m : \A j1, j2 \in 1..Len(m[k]) :
                 j1 < j2 => \A i1 \in EntryOf(m[k][j1]), i2 \in EntryOf(m[k][j2]) : i1 < i2

C5_Witness ==
    /\ indexResult.status = "ok"
    /\ Listed = entries
    /\ Len(entries) = 3
    /\ Cardinality(DOMAIN indexResult.mapping) = 2
    /\ \E k \in DOMAIN indexResult.mapping :
          /\ Len(indexResult.mapping[k]) = 2
          /\ indexResult.mapping[k][1].post_version_sort # indexResult.mapping[k][2].post_version_sort

-----------------------------------------------------------------------------
(* Properties of minor_release_get_title (checked under SpecTitle).        *)

TitleReturned == titleResult.status # "pending"

OverrideKeys == {V_1_19, V_1_13}

\* "<version>.0.md" exists under the given path
FileThere == tPath = <<"a">> /\ tFile.exists

\* the front-matter block: the tokens between the first delimiter and the next
FrontMatter(content) ==
    LET blocks == SplitTokens(content)
    IN IF Len(blocks) < 2 THEN <<>> ELSE blocks[2]

NoDelimiter(content) == \A i \in 1..Len(content) : content[i].kind # "delim"

TitleFields(content) == SelectSeq(FrontMatter(content), LAMBDA t : t.kind = "title")

Unquoted(chars) == Remove(Remove(chars, "\""), "'")

HasMarker(chars) == FindFrom(chars, MARKER, 1) > 0

\* the file has a front-matter block of key-value lines with a string title
HasStringTitle(content) ==
    /\ \A i \in 1..Len(FrontMatter(content)) : FrontMatter(content)[i].kind # "text"
    /\ Len(TitleFields(content)) = 1
    /\ TitleFields(content)[1].isStr

TheTitle(content) == TitleFields(content)[1].chars

\* no delimiter, no "title" field, or a title that (quotes stripped) has no marker
Malformed(content) ==
    \/ NoDelimiter(content)
    \/ TitleFields(content) = <<>>
    \/ /\ HasStringTitle(content)
       /\ ~HasMarker(Unquoted(TheTitle(content)))

\* everything after the first marker, to the end
AfterFirstMarker(chars) == SubSeq(chars, FindFrom(chars, MARKER, 1) + Len(MARKER), Len(chars))

\* C6: for a version of the override table the resolver returns the override
\* verbatim, touches no file and raises nothing, whatever the path and the files.
C6_OverrideShortCircuits ==
    (TitleReturned /\ tVersion \in OverrideKeys) =>
        /\ titleResult.status = "ok"
        /\ titleResult.fsLog = <<>>
        /\ titleResult.title = (IF tVersion = V_1_19 THEN TITLE_1_19 ELSE TITLE_1_13)

C6_Witness ==
    /\ titleResult.status = "ok"
    /\ tVersion = V_1_13
    /\ FileThere
    /\ HasStringTitle(tFile.content)
    /\ HasMarker(TheTitle(tFile.content))
    /\ titleResult.title # tVersion \o <<" ">> \o AfterFirstMarker(Unquoted(TheTitle(tFile.content)))

\* C7: with no override and a title containing the marker, the resolver returns
\* the version, a space and all of the title (quotes removed) after the first
\* marker, up to the end of the title.
C7_WholeRemainderAfterFirstMarker ==
    (TitleReturned /\ tVersion \notin OverrideKeys /\ FileThere
        /\ HasStringTitle(tFile.content) /\ HasMarker(TheTitle(tFile.content))) =>
        /\ titleResult.status = "ok"
        /\ titleResult.title =
              tVersion \o <<" ">> \o AfterFirstMarker(Unquoted(TheTitle(tFile.content)))

-----------------------------------------------------------------------------
(* Properties of the render pass (checked under SpecRender).               *)

\* a direct entry that is not hidden and whose first suffix is ".md"
Matched(name) ==
    /\ ~StartsWith(name, DOT)
    /\ Suffixes(name) # <<>>
    /\ Suffixes(name)[1] = DOT_MD

\* the name cut just after its first ".md"
TruncatedAfterMd(name) == SubSeq(name, 1, FindFrom(name, DOT_MD, 1) + Len(DOT_MD) - 1)

\* the writes a pass makes for a run of entries that all render
WritesFor(names) ==
    LET sel == SelectSeq(names, Matched)
    IN [i \in 1..Len(sel) |-> [out |-> TruncatedAfterMd(sel[i]), tpl |-> sel[i]]]

FilesWritten == {writes[i].out : i \in 1..Len(writes)}

MatchedTemplates == {t \in Range(templates) : Matched(t)}

\* the template whose rendering a written file holds at the end: its last writer
LastWriter(out) ==
    writes[CHOOSE i \in 1..Len(writes) :
              writes[i].out = out /\ \A j \in 1..Len(writes) : writes[j].out = out => j <= i].tpl

\* the matched template enumerated last among those with a given truncated name
LastMatched(out) ==
    templates[CHOOSE i \in 1..Len(templates) :
                 /\ Matched(templates[i]) /\ TruncatedAfterMd(templates[i]) = out
                 /\ \A j \in 1..Len(templates) :
                       (Matched(templates[j]) /\ TruncatedAfterMd(templates[j]) = out) => j <= i]

\* C2 as claimed: a pass that raised an error has written no output file.
C2_ErrorMeansNothingWritten == pc = "error" => writes = <<>>

\* C2 as amended: a pass that raised an error stopped at the failing entry: the
\* matched entries before it are written, in order, and nothing else is.
C2_ErrorStopsAtFailingEntry ==
    pc = "error" =>
        /\ pos <= Len(templates)
        /\ writes = WritesFor(SubSeq(templates, 1, pos - 1))
        /\ \A i \in 1..Len(writes) : \A j \in pos..Len(templates) : writes[i].tpl # templates[j]

C2_Witness ==
    /\ pc = "error"
    /\ Len(writes) >= 1
    /\ templates[pos] \in failing
    /\ Matched(templates[pos])
    /\ pos < Len(templates)

\* C9: when no template fails to render, the pass ends having rendered and
\* written exactly the non-hidden entries whose first suffix is ".md".
C9_RendersExactlyMatched ==
    (failing = {} /\ pc \in {"done", "error"}) =>
        /\ pc = "done"
        /\ {writes[i].tpl : i \in 1..Len(writes)} = MatchedTemplates

\* C10 as claimed: after a successful pass there are as many written files as
\* matched templates.
C10_OneFilePerMatchedTemplate ==
    pc = "done" => Cardinality(FilesWritten) = Cardinality(MatchedTemplates)

\* C10 as amended: after a successful pass every matched template was written
\* once under its truncated name, the files written are exactly those truncated
\* names, and each holds the rendering of the last matched template of that name.
C10_FilesAreTruncatedNames ==
    pc = "done" =>
        /\ writes = WritesFor(templates)
        /\ FilesWritten = {TruncatedAfterMd(t) : t \in MatchedTemplates}
        /\ Cardinality(FilesWritten) <= Cardinality(MatchedTemplates)
        /\ \A out \in FilesWritten : LastWriter(out) = LastMatched(out)

C10_Witness ==
    /\ pc = "done"
    /\ Cardinality(MatchedTemplates) = 3
    /\ Cardinality(FilesWritten) = 2

====
